---- MODULE Spec2Model ----
(***************************************************************************)
(* A model of tng.py: the UidMap class (a 64-bit UID codec and a lazily    *)
(* allocated four-level table  year -> child -> day -> ssn) and main().    *)
(*                                                                         *)
(* Numbers.  A numpy scalar (np.uint32, np.uint64, np.int64) is a Word:    *)
(* four 16-bit limbs, least significant first, i.e. the exact 64-bit       *)
(* pattern.  Arithmetic on Words wraps modulo 2^64 as numpy's does; a      *)
(* np.uint32 keeps the two low limbs.  Python ints (the arguments of the   *)
(* constructor and of make_uid, list lengths) are TLA+ integers.           *)
(* The promotion rules are those of numpy 1.x: a Python int combined with  *)
(* a np.uint32 scalar gives a np.int64.                                    *)
(*                                                                         *)
(* Tables.  A Python list or numpy array of length n is a function on      *)
(* 0..n-1.  An entry of a list is None or Some(t), t the table it refers to.*)
(***************************************************************************)
EXTENDS Integers, Sequences, FiniteSets, TLC

\* LET v == e IN Body(v), with e evaluated once however often Body uses v.
Let(e, Body(_)) == CHOOSE r \in {Body(v) : v \in {e}} : TRUE

(***************************************************************************)
(* 64-bit words                                                            *)
(***************************************************************************)
\* The width of np.uint64 and np.int64.
WordBits == 64

\* The Word of a Python int 0 <= n < 2^31.
W(n) == Let(n, LAMBDA v : <<v % 65536, (v \div 65536) % 65536, 0, 0>>)

Zero == <<0, 0, 0, 0>>
One == <<1, 0, 0, 0>>

\* 0xFFFFFFFFFFFFFFFF, the value written to column 0 of a fresh ssn array.
Sentinel == <<65535, 65535, 65535, 65535>>

\* Limb n of word u (1 = least significant), 0 beyond the word.
LimbAt(u, n) == IF n >= 1 /\ n <= 4 THEN u[n] ELSE 0

\* The bitwise and of two limbs.
RECURSIVE AndLimb(_, _)
AndLimb(a, b) ==
    IF a = 0 \/ b = 0 THEN 0
    ELSE (a % 2) * (b % 2) + 2 * AndLimb(a \div 2, b \div 2)

\* Whether word u is below 2^31, and then its value as an integer.
IsSmall(u) == u[3] = 0 /\ u[4] = 0 /\ u[2] < 32768
ToNat(u) == u[1] + u[2] * 65536

\* A shift count: numpy's shift of a 64-bit scalar by 64 or more gives 0, so
\* every count of 64 or more acts as 64.
Count(c) ==
    Let(c, LAMBDA v : IF IsSmall(v) /\ ToNat(v) < WordBits THEN ToNat(v) ELSE WordBits)

\* u >> c on 64 bits: limb n of the result takes the high bits of limb n+q
\* and the low r bits of limb n+q+1, where the count is 16q + r.
Shr(u, c) ==
    Let(<<u, Count(c)>>, LAMBDA a :
        LET q == a[2] \div 16
            r == a[2] % 16
            L(n) == (LimbAt(a[1], n + q) \div (2 ^ r))
                    + (LimbAt(a[1], n + q + 1) % (2 ^ r)) * (2 ^ (16 - r))
        IN  <<L(1), L(2), L(3), L(4)>>)

\* u << c on 64 bits; the bits shifted past bit 63 are lost.
Shl(u, c) ==
    Let(<<u, Count(c)>>, LAMBDA a :
        LET q == a[2] \div 16
            r == a[2] % 16
            L(n) == ((LimbAt(a[1], n - q) * (2 ^ r)) % 65536)
                    + (LimbAt(a[1], n - q - 1) \div (2 ^ (16 - r)))
        IN  <<L(1), L(2), L(3), L(4)>>)

\* u & v.
And(u, v) ==
    Let(<<u, v>>, LAMBDA a :
        <<AndLimb(a[1][1], a[2][1]), AndLimb(a[1][2], a[2][2]),
          AndLimb(a[1][3], a[2][3]), AndLimb(a[1][4], a[2][4])>>)

\* u + v modulo 2^64: limb by limb, with the carries.
Add(u, v) ==
    Let(<<u, v>>, LAMBDA a :
        LET s1 == a[1][1] + a[2][1]
            s2 == a[1][2] + a[2][2] + (s1 \div 65536)
            s3 == a[1][3] + a[2][3] + (s2 \div 65536)
            s4 == a[1][4] + a[2][4] + (s3 \div 65536)
        IN  <<s1 % 65536, s2 % 65536, s3 % 65536, s4 % 65536>>)

\* u - v modulo 2^64 (two's complement).
Sub(u, v) ==
    Let(v, LAMBDA y :
        Add(Add(u, <<65535 - y[1], 65535 - y[2], 65535 - y[3], 65535 - y[4]>>), One))

\* np.uint32(x) of an integer scalar x: the low 32 bits.
U32(u) == Let(u, LAMBDA x : <<x[1], x[2], 0, 0>>)

\* u < n for a word u and an integer 0 <= n < 2^31 (an index against a length).
Below(u, n) == Let(u, LAMBDA x : IsSmall(x) /\ ToNat(x) < n)

(***************************************************************************)
(* Python lists and numpy arrays                                           *)
(***************************************************************************)
\* An entry of a list: None, or a reference to table t.
None == <<>>
Some(t) == <<t>>

\* [ None for _ in range(n) ]
NoneList(n) == [k \in 0..(n - 1) |-> None]

\* len(t) of a list or array t.
Size(t) == Cardinality(DOMAIN t)

\* The length range(x) and np.zeros((x, 2)) get from a np.int64 or np.uint32
\* scalar x; range of a negative int64 is empty.
Length(x) == Let(x, LAMBDA v : IF v[4] >= 32768 THEN 0 ELSE ToNat(v))

\* A faulty allocation, used to test C16_OneSlot: np.zeros((n, 2)) with
\* column 0 left as it is.
NewSsnArrayZeros(n) == [k \in 0..(n - 1) |-> <<Zero, Zero>>]

\* np.zeros((n, 2), dtype=np.uint64) with column 0 then set to the sentinel:
\* row k is <<storage index, uid>>.
NewSsnArray(n) == [k \in 0..(n - 1) |-> <<Sentinel, Zero>>]

(***************************************************************************)
(* UidMap.__init__                                                         *)
(***************************************************************************)
\* A faulty rounding, floor(log2(n)) for n >= 1, used to test C9_Scenario.
RECURSIVE FloorLog2(_)
FloorLog2(n) == IF n <= 1 THEN 0 ELSE 1 + FloorLog2(n \div 2)

\* ceil(log2(n)) for an integer n >= 1: the least k with 2^k >= n.
RECURSIVE CeilLog2From(_, _)
CeilLog2From(n, k) == IF 2 ^ k >= n THEN k ELSE CeilLog2From(n, k + 1)
CeilLog2(n) == CeilLog2From(n, 0)

\* What the cast np.uint32(x) of a float x that is -inf (log2 of 0) or nan
\* (log2 of a negative number) can give: the conversion is undefined in C;
\* scalar x86-64 and AArch64 code give 0, a vectorised conversion all ones.
InvalidCast == {Zero, <<65535, 65535, 0, 0>>}

\* np.uint32(np.ceil(np.log2(n))): the values the field can get.
BitsOf(n) == IF n >= 1 THEN {W(CeilLog2(n))} ELSE InvalidCast

\* The object __init__ leaves, given the four casts of lines 17-20.
UidMap(pb, tb, cb, db) ==
    LET yb == U32(Sub(tb, db))
        num_years == U32(Shl(One, yb))
    IN  [pop_bits     |-> pb,
         time_bits    |-> tb,
         child_bits   |-> cb,
         day_bits     |-> db,
         year_bits    |-> yb,
         ssn_offset   |-> U32(Add(cb, tb)),
         child_offset |-> tb,
         child_mask   |-> Sub(Shl(One, cb), One),
         time_mask    |-> Sub(Shl(One, tb), One),
         day_mask     |-> Sub(Shl(One, db), One),
         mapping      |-> NoneList(Length(num_years))]

(***************************************************************************)
(* The UID codec                                                           *)
(***************************************************************************)
\* make_uid for Python ints ssn, time, child in 0..2^31-1: the shifts and the
\* sum are np.int64, and np.uint64() keeps the 64 bits.
make_uid(obj, ssn, time, child) ==
    Add(Add(Shl(W(ssn), obj.ssn_offset), Shl(W(child), obj.child_offset)), W(time))

\* parse_uid: <<ssn, child, day, year>>.
parse_uid(obj, uid) ==
    LET ssn   == Shr(uid, obj.ssn_offset)
        child == And(Shr(uid, obj.child_offset), obj.child_mask)
        time  == And(uid, obj.time_mask)
        year  == Shr(time, obj.day_bits)
        day   == And(time, obj.day_mask)
    IN  <<ssn, child, day, year>>

(***************************************************************************)
(* UidMap.add_individual, get_index, uids                                  *)
(***************************************************************************)
\* Indexing list or array t with the np.uint64 scalar x raises IndexError
\* unless x < len(t).
InBounds(x, t) == Below(x, Size(t))

\* add_individual(uid, index): the mapping it leaves and how it ends.  A table
\* allocated before an IndexError stays allocated.  m1, m2, m3 are the mapping
\* after lines 71-74, 78-81 and 85-89.
add_individual(obj, uid, index) ==
    Let(parse_uid(obj, uid), LAMBDA p :
    LET ssn   == p[1]
        child == p[2]
        day   == p[3]
        year  == p[4]
        m0    == obj.mapping
        y     == ToNat(year)
        c     == ToNat(child)
        d     == ToNat(day)
    IN  IF ~InBounds(year, m0)
        THEN [mapping |-> m0, outcome |-> "IndexError"]
        ELSE
        Let(IF m0[y] = None
            THEN [m0 EXCEPT ![y] = Some(NoneList(Length(Shl(One, obj.child_bits))))]
            ELSE m0, LAMBDA m1 :
        IF ~InBounds(child, m1[y][1])
        THEN [mapping |-> m1, outcome |-> "IndexError"]
        ELSE
        Let(IF m1[y][1][c] = None
            THEN [m1 EXCEPT ![y][1][c] = Some(NoneList(Length(Shl(One, obj.day_bits))))]
            ELSE m1, LAMBDA m2 :
        IF ~InBounds(day, m2[y][1][c][1])
        THEN [mapping |-> m2, outcome |-> "IndexError"]
        ELSE
        Let(IF m2[y][1][c][1][d] = None
            THEN [m2 EXCEPT ![y][1][c][1][d] =
                      Some(NewSsnArray(Length(Shl(One, obj.pop_bits))))]
            ELSE m2, LAMBDA m3 :
        IF ~InBounds(ssn, m3[y][1][c][1][d][1])
        THEN [mapping |-> m3, outcome |-> "IndexError"]
        ELSE [mapping |-> [m3 EXCEPT ![y][1][c][1][d][1][ToNat(ssn)] = <<index, uid>>],
              outcome |-> "return"]))))

\* A faulty get_index, used to test C1_InsertLookup: it reads column 1, the
\* uid, of the row instead of column 0.
get_index_uid_column(obj, uid) ==
    Let(parse_uid(obj, uid), LAMBDA p :
    LET m == obj.mapping
        y == ToNat(p[4])
        c == ToNat(p[2])
        d == ToNat(p[3])
    IN  IF ~InBounds(p[4], m) THEN [outcome |-> "IndexError", value |-> Zero]
        ELSE IF m[y] = None THEN [outcome |-> "TypeError", value |-> Zero]
        ELSE IF ~InBounds(p[2], m[y][1])
        THEN [outcome |-> "IndexError", value |-> Zero]
        ELSE IF m[y][1][c] = None THEN [outcome |-> "TypeError", value |-> Zero]
        ELSE IF ~InBounds(p[3], m[y][1][c][1])
        THEN [outcome |-> "IndexError", value |-> Zero]
        ELSE IF m[y][1][c][1][d] = None
        THEN [outcome |-> "TypeError", value |-> Zero]
        ELSE IF ~InBounds(p[1], m[y][1][c][1][d][1])
        THEN [outcome |-> "IndexError", value |-> Zero]
        ELSE [outcome |-> "return",
              value |-> m[y][1][c][1][d][1][ToNat(p[1])][2]])

\* get_index(uid): how self.mapping[year][child][day][ssn,0] ends, and the
\* value it returns.  Subscripting None raises TypeError.
get_index(obj, uid) ==
    Let(parse_uid(obj, uid), LAMBDA p :
    LET ssn   == p[1]
        child == p[2]
        day   == p[3]
        year  == p[4]
        m     == obj.mapping
        Raise(e) == [outcome |-> e, value |-> Zero]
    IN  IF ~InBounds(year, m) THEN Raise("IndexError")
        ELSE IF m[ToNat(year)] = None THEN Raise("TypeError")
        ELSE
        LET child_list == m[ToNat(year)][1]
        IN  IF ~InBounds(child, child_list) THEN Raise("IndexError")
            ELSE IF child_list[ToNat(child)] = None THEN Raise("TypeError")
            ELSE
            LET day_list == child_list[ToNat(child)][1]
            IN  IF ~InBounds(day, day_list) THEN Raise("IndexError")
                ELSE IF day_list[ToNat(day)] = None THEN Raise("TypeError")
                ELSE
                LET ssn_array == day_list[ToNat(day)][1]
                IN  IF ~InBounds(ssn, ssn_array) THEN Raise("IndexError")
                    ELSE [outcome |-> "return", value |-> ssn_array[ToNat(ssn)][1]])

\* The rows of ssn_array in index order, as a sequence.
Rows(ssn_array) == [k \in 1..Size(ssn_array) |-> ssn_array[k - 1]]

\* A faulty test of line 121, used to test C2_Amended: every row counts as
\* bound.
IsBoundAlways(row) == TRUE

\* A faulty inner loop, used to test C4_Amended: it yields the uid of every
\* bound row twice.
ScanSsnTwice(ssn_array) ==
    Let(SelectSeq(Rows(ssn_array), LAMBDA row : row[1] # Sentinel), LAMBDA bound :
        [k \in 1..(2 * Len(bound)) |-> bound[(k + 1) \div 2][2]])

\* A faulty inner loop, used to test C12_Order: it visits the rows from the
\* last to the first.
ScanSsnDescending(ssn_array) ==
    Let(SelectSeq(Rows(ssn_array), LAMBDA row : row[1] # Sentinel), LAMBDA bound :
        [k \in 1..Len(bound) |-> bound[Len(bound) + 1 - k][2]])

\* The inner loop of uids (lines 119-122): the uid of every row whose index
\* is not the sentinel, in row order.
IsBound(row) == row[1] # Sentinel
ScanSsn(ssn_array) ==
    Let(SelectSeq(Rows(ssn_array), IsBound), LAMBDA bound :
        [k \in 1..Len(bound) |-> bound[k][2]])

\* The loop over a day list (lines 116-118) for its entries lo..hi-1 in
\* ascending order, the entries that are None skipped.  The range is halved
\* until it is one entry.
RECURSIVE ScanDays(_, _, _)
ScanDays(day_list, lo, hi) ==
    IF lo >= hi THEN <<>>
    ELSE IF hi = lo + 1
    THEN (IF day_list[lo] = None THEN <<>> ELSE ScanSsn(day_list[lo][1]))
    ELSE Let((lo + hi) \div 2, LAMBDA mid :
             ScanDays(day_list, lo, mid) \o ScanDays(day_list, mid, hi))

\* The loop over a child list (lines 113-115), likewise.
RECURSIVE ScanChildren(_, _, _)
ScanChildren(child_list, lo, hi) ==
    IF lo >= hi THEN <<>>
    ELSE IF hi = lo + 1
    THEN (IF child_list[lo] = None THEN <<>>
          ELSE Let(child_list[lo][1], LAMBDA day_list :
                   ScanDays(day_list, 0, Size(day_list))))
    ELSE Let((lo + hi) \div 2, LAMBDA mid :
             ScanChildren(child_list, lo, mid) \o ScanChildren(child_list, mid, hi))

\* The loop over the mapping (lines 110-112), likewise.
RECURSIVE ScanYears(_, _, _)
ScanYears(m, lo, hi) ==
    IF lo >= hi THEN <<>>
    ELSE IF hi = lo + 1
    THEN (IF m[lo] = None THEN <<>>
          ELSE Let(m[lo][1], LAMBDA child_list :
                   ScanChildren(child_list, 0, Size(child_list))))
    ELSE Let((lo + hi) \div 2, LAMBDA mid :
             ScanYears(m, lo, mid) \o ScanYears(m, mid, hi))

\* uids(): the sequence one full traversal yields while the table does not
\* change.
uids(obj) == Let(obj.mapping, LAMBDA m : ScanYears(m, 0, Size(m)))

(***************************************************************************)
(* The generator uids() returns, one next() at a time                      *)
(***************************************************************************)
\* The generator is suspended at the yield of line 122, in the four loops at
\* year y, child c, day d and row s: its position is <<y, c, d, s>>.  The
\* lists and the array it iterates are the objects of the table themselves,
\* read when the loops get to them.
Min(S) == CHOOSE x \in S : \A z \in S : x <= z

\* The loop of lines 119-122 run from row lo: <<s>> for the first row s >= lo
\* whose index is not the sentinel, <<>> when the loop ends without a yield.
FirstRow(ssn_array, lo) ==
    Let({k \in lo..(Size(ssn_array) - 1) : IsBound(ssn_array[k])}, LAMBDA S :
        IF S = {} THEN <<>> ELSE <<Min(S)>>)

\* The loop of lines 116-118 run from day lo: <<d, s>> of its first yield.
FirstDay(day_list, lo) ==
    Let({d \in lo..(Size(day_list) - 1) :
            day_list[d] # None /\ FirstRow(day_list[d][1], 0) # <<>>}, LAMBDA S :
        IF S = {} THEN <<>>
        ELSE <<Min(S)>> \o FirstRow(day_list[Min(S)][1], 0))

\* The loop of lines 113-115 run from child lo: <<c, d, s>> of its first yield.
FirstChild(child_list, lo) ==
    Let({c \in lo..(Size(child_list) - 1) :
            child_list[c] # None /\ FirstDay(child_list[c][1], 0) # <<>>}, LAMBDA S :
        IF S = {} THEN <<>>
        ELSE <<Min(S)>> \o FirstDay(child_list[Min(S)][1], 0))

\* The loop of lines 110-112 run from year lo: <<y, c, d, s>> of its first
\* yield.
FirstYear(m, lo) ==
    Let({y \in lo..(Size(m) - 1) :
            m[y] # None /\ FirstChild(m[y][1], 0) # <<>>}, LAMBDA S :
        IF S = {} THEN <<>>
        ELSE <<Min(S)>> \o FirstChild(m[Min(S)][1], 0))

\* The generator resumed at position pos: the rest of the row loop, then of
\* the day loop, of the child loop and of the year loop.
Resume(m, pos) ==
    LET y == pos[1]
        c == pos[2]
        d == pos[3]
        rows     == FirstRow(m[y][1][c][1][d][1], pos[4] + 1)
        days     == FirstDay(m[y][1][c][1], d + 1)
        children == FirstChild(m[y][1], c + 1)
    IN  IF rows # <<>> THEN <<y, c, d>> \o rows
        ELSE IF days # <<>> THEN <<y, c>> \o days
        ELSE IF children # <<>> THEN <<y>> \o children
        ELSE FirstYear(m, y + 1)

\* A generator: state "new" (not started), "running" (suspended at pos) or
\* "done".  out is what it yielded so far, each uid with the number of
\* add_individual calls made before the yield; ended is that number for the
\* end of the traversal.
NewGenerator == [state |-> "new", pos |-> <<>>, out |-> <<>>, ended |-> 0]

\* A faulty generator, used to test C13_Amended: resumed, it ends with the
\* year it is in.
next_within_year(obj, gen) ==
    IF gen.state = "new" THEN FirstYear(obj.mapping, 0)
    ELSE LET m == obj.mapping
             y == gen.pos[1]
             c == gen.pos[2]
             d == gen.pos[3]
             rows     == FirstRow(m[y][1][c][1][d][1], gen.pos[4] + 1)
             days     == FirstDay(m[y][1][c][1], d + 1)
             children == FirstChild(m[y][1], c + 1)
         IN  IF rows # <<>> THEN <<y, c, d>> \o rows
             ELSE IF days # <<>> THEN <<y, c>> \o days
             ELSE IF children # <<>> THEN <<y>> \o children
             ELSE <<>>

\* next(gen) on a generator that is not done: the position of its next
\* yield, <<>> for StopIteration.
next(obj, gen) ==
    IF gen.state = "new" THEN FirstYear(obj.mapping, 0)
    ELSE Resume(obj.mapping, gen.pos)

(***************************************************************************)
(* State                                                                   *)
(***************************************************************************)
VARIABLES
    self,       \* the UidMap object: its fields, self.mapping the table
    args,       \* the arguments __init__ was called with
    history,    \* the add_individual calls made so far, in order
    last,       \* the latest call, its arguments and how it ended
    pc,         \* who drives the object: "api", "codec", "traverse", or main's position
    i,          \* main's loop counter
    gens        \* the generators that calls of uids() returned, in order

vars == <<self, args, history, last, pc, i, gens>>

\* The record of a call.  op: its name; uid, index: its arguments (for
\* make_uid, uid is the result and given its arguments <<ssn, time, child>>);
\* outcome: "return" or the exception raised; value: what get_index returned;
\* parts: what parse_uid returned; yielded: what a traversal yielded.
NoCall ==
    [op |-> "", uid |-> Zero, index |-> Zero, outcome |-> "return",
     value |-> Zero, given |-> <<>>, parts |-> <<>>, yielded |-> <<>>]

\* __init__ has no raise statement and ends at its return (line 32).
Constructed(a) ==
    /\ args = a
    /\ \E pb \in BitsOf(a.initial_population_size),
          tb \in BitsOf(a.number_of_timesteps),
          cb \in BitsOf(a.max_children),
          db \in BitsOf(a.year_size) :
            self = UidMap(pb, tb, cb, db)
    /\ history = <<>>
    /\ last = [NoCall EXCEPT !.op = "__init__"]
    /\ i = 0
    /\ gens = <<>>

Arguments(p, t, c, y) ==
    [initial_population_size |-> p, number_of_timesteps |-> t,
     max_children |-> c, year_size |-> y]

(***************************************************************************)
(* A caller of the class: any calls, in any order                          *)
(***************************************************************************)
\* At most this many add_individual calls are made.
MaxOps == 3

\* The constructor arguments tried: 1 population bit, 2 time bits, 1 child
\* bit, 1 day bit (so 2 years); and 0 time bits with 1 day bit, where
\* day_bits > time_bits.
Configurations == {Arguments(2, 4, 2, 2), Arguments(2, 1, 2, 2)}

\* The uids passed.  In the first configuration uid 2 has year 1, uid 4 child 1,
\* uid 8 serial number 1, all else 0; the all-ones word has every field at its
\* maximum (day 1, year 1, child 1) and its serial number out of range.
UidInputs == {W(0), W(2), W(4), W(8), Sentinel}

\* The storage indices passed: the next free storage slot, or the all-ones
\* word.
IndexInputs == {W(Len(history)), Sentinel}

Init ==
    /\ pc = "api"
    /\ \E a \in Configurations : Constructed(a)

\* A faulty add_individual, used to test C17_StoredUid: line 93 is left
\* out, so column 1 of the row keeps the uid it had.
AddIndividualWithoutUid(uid, index) ==
    /\ pc = "api"
    /\ Len(history) < MaxOps
    /\ \E r \in {add_individual(self, uid, index)} :
       \E p \in {parse_uid(self, uid)} :
           /\ self' = [self EXCEPT !.mapping =
                 IF r.outcome # "return" THEN r.mapping
                 ELSE [r.mapping EXCEPT
                         ![ToNat(p[4])][1][ToNat(p[2])][1][ToNat(p[3])][1][ToNat(p[1])][2] =
                             IF get_index_uid_column(self, uid).outcome = "return"
                             THEN get_index_uid_column(self, uid).value
                             ELSE Zero]]
           /\ history' = Append(history, [uid |-> uid, index |-> index,
                                          outcome |-> r.outcome])
           /\ last' = [NoCall EXCEPT !.op = "add_individual", !.uid = uid,
                                     !.index = index, !.outcome = r.outcome]
    /\ UNCHANGED <<args, pc, i, gens>>

AddIndividual(uid, index) ==
    /\ pc = "api"
    /\ Len(history) < MaxOps
    /\ \E r \in {add_individual(self, uid, index)} :
           /\ self' = [self EXCEPT !.mapping = r.mapping]
           /\ history' = Append(history, [uid |-> uid, index |-> index,
                                          outcome |-> r.outcome])
           /\ last' = [NoCall EXCEPT !.op = "add_individual", !.uid = uid,
                                     !.index = index, !.outcome = r.outcome]
    /\ UNCHANGED <<args, pc, i, gens>>

GetIndex(uid) ==
    /\ pc = "api"
    /\ \E r \in {get_index(self, uid)} :
           last' = [NoCall EXCEPT !.op = "get_index", !.uid = uid,
                                  !.outcome = r.outcome, !.value = r.value]
    /\ UNCHANGED <<self, args, history, pc, i, gens>>

Uids ==
    /\ pc = "api"
    /\ last' = [NoCall EXCEPT !.op = "uids", !.yielded = uids(self)]
    /\ UNCHANGED <<self, args, history, pc, i, gens>>

Next ==
    \/ \E uid \in UidInputs, index \in IndexInputs : AddIndividual(uid, index)
    \/ \E uid \in UidInputs : GetIndex(uid)
    \/ Uids

Spec == Init /\ [][Next]_vars

(***************************************************************************)
(* A caller of the codec: make_uid and parse_uid on a constructed object   *)
(***************************************************************************)
\* The constructor arguments tried: main's; the two of Configurations; each
\* capacity <= 0 in turn; and 30 + 30 + 5 = 65 bits of fields with one year.
CodecConfigurations ==
    {Arguments(10000, 7300, 8, 256),
     Arguments(2, 4, 2, 2), Arguments(2, 1, 2, 2),
     Arguments(0, 4, 2, 2), Arguments(2, 0, 2, 2),
     Arguments(2, 4, -1, 2), Arguments(2, 4, 2, 0),
     Arguments(1073741824, 1073741824, 32, 1073741824)}

\* The arguments make_uid is called with and the uids parse_uid is called with
\* (the latter beside the uid make_uid last returned).
SsnInputs == {0, 1, 9999, 16384, 536870912}
TimeInputs == {0, 3, 256, 7299, 8192}
ChildInputs == {0, 1, 7, 8}
CodecUidInputs == {W(0), W(9), W(2031616), <<0, 0, 0, 32768>>, Sentinel}

InitCodec ==
    /\ pc = "codec"
    /\ \E a \in CodecConfigurations : Constructed(a)

MakeUid(ssn, time, child) ==
    /\ pc = "codec"
    /\ last' = [NoCall EXCEPT !.op = "make_uid", !.given = <<ssn, time, child>>,
                              !.uid = make_uid(self, ssn, time, child)]
    /\ UNCHANGED <<self, args, history, pc, i, gens>>

ParseUid(uid) ==
    /\ pc = "codec"
    /\ last' = [NoCall EXCEPT !.op = "parse_uid", !.uid = uid,
                              !.parts = parse_uid(self, uid)]
    /\ UNCHANGED <<self, args, history, pc, i, gens>>

NextCodec ==
    \/ \E ssn \in SsnInputs, time \in TimeInputs, child \in ChildInputs :
          MakeUid(ssn, time, child)
    \/ \E uid \in CodecUidInputs \cup {last.uid} : ParseUid(uid)

SpecCodec == InitCodec /\ [][NextCodec]_vars

(***************************************************************************)
(* main()                                                                  *)
(***************************************************************************)
\* range(32) of line 141 and range(8) of line 153.
NumSeeds == 32
NumChildren == 8

\* population_size and simulation_duration (lines 135-136); max_children and
\* year_size take their defaults (line 13).
MainArguments == Arguments(10000, 365 * 20, 8, 256)

\* np.random.randint(population_size), randint(simulation_duration) and
\* randint(8) draw any value below their bound; these are the draws tried.
\* ssn 0, time 0, child 0 is the uid of the first seed.
RandSsn == {0}
RandTime == {0, 7299}
RandChild == {0}

InitMain ==
    /\ pc = "seed"
    /\ Constructed(MainArguments)

\* One iteration of the loop of lines 141-142.  An exception ends main.
\* history belongs to the interface specification and stays empty here.
MainSeed ==
    /\ pc = "seed"
    /\ \E uid \in {make_uid(self, i, 0, 0)} :
       \E r \in {add_individual(self, uid, W(i))} :
           /\ self' = [self EXCEPT !.mapping = r.mapping]
           /\ last' = [NoCall EXCEPT !.op = "add_individual", !.uid = uid,
                                     !.index = W(i), !.outcome = r.outcome]
           /\ pc' = IF r.outcome # "return" THEN "raised"
                    ELSE IF i + 1 = NumSeeds THEN "children" ELSE "seed"
           /\ i' = IF r.outcome = "return" /\ i + 1 = NumSeeds THEN 0 ELSE i + 1
    /\ UNCHANGED <<args, history, gens>>

\* One iteration of the loop of lines 153-159.
MainChild(ssn, time, child) ==
    /\ pc = "children"
    /\ \E uid \in {make_uid(self, ssn, time, child)} :
       \E r \in {add_individual(self, uid, W(i + NumSeeds))} :
           /\ self' = [self EXCEPT !.mapping = r.mapping]
           /\ last' = [NoCall EXCEPT !.op = "add_individual", !.uid = uid,
                                     !.index = W(i + NumSeeds),
                                     !.outcome = r.outcome]
           /\ pc' = IF r.outcome # "return" THEN "raised"
                    ELSE IF i + 1 = NumChildren THEN "uids" ELSE "children"
           /\ i' = IF r.outcome = "return" /\ i + 1 = NumChildren THEN 0 ELSE i + 1
    /\ UNCHANGED <<args, history, gens>>

\* um.uids() of line 161.  Nothing between here and the end of main writes
\* the table, so the generator yields what a traversal made now yields:
\* last.yielded is what it is going to yield, in order.
MainUids ==
    /\ pc = "uids"
    /\ \E all \in {uids(self)} :
          last' = [NoCall EXCEPT !.op = "uids", !.yielded = all]
    /\ pc' = "report"
    /\ UNCHANGED <<self, args, history, i, gens>>

\* One iteration of the loop of lines 161-163: the next uid of the traversal
\* (i uids were yielded before) and its get_index; the loop ends when the
\* traversal does.
MainReport ==
    /\ pc = "report"
    /\ IF i < Len(last.yielded)
       THEN \E r \in {get_index(self, last.yielded[i + 1])} :
                /\ last' = [last EXCEPT !.op = "get_index",
                                        !.uid = last.yielded[i + 1],
                                        !.outcome = r.outcome,
                                        !.value = r.value]
                /\ pc' = IF r.outcome = "return" THEN "report" ELSE "raised"
                /\ i' = i + 1
       ELSE /\ pc' = "done"
            /\ UNCHANGED <<last, i>>
    /\ UNCHANGED <<self, args, history, gens>>

NextMain ==
    \/ MainSeed
    \/ \E ssn \in RandSsn, time \in RandTime, child \in RandChild :
          MainChild(ssn, time, child)
    \/ MainUids
    \/ MainReport

SpecMain == InitMain /\ [][NextMain]_vars

(***************************************************************************)
(* A caller that inserts while it traverses                                *)
(***************************************************************************)
\* At most this many calls of add_individual and of uids() are made in all.
MaxCalls == 4

\* The uids inserted: serial numbers 0 and 1 of year 0, and serial number 0
\* of year 1, in the first configuration.
TraverseUidInputs == {W(0), W(8), W(2)}

\* The uids looked up: uid 0, and the all-ones word, whose serial number is
\* out of range.
TraverseGetInputs == {W(0), Sentinel}

InitTraverse ==
    /\ pc = "traverse"
    /\ Constructed(Arguments(2, 4, 2, 2))

TraverseAdd(uid, index) ==
    /\ pc = "traverse"
    /\ Len(history) + Len(gens) < MaxCalls
    /\ \E r \in {add_individual(self, uid, index)} :
           /\ self' = [self EXCEPT !.mapping = r.mapping]
           /\ history' = Append(history, [uid |-> uid, index |-> index,
                                          outcome |-> r.outcome])
           /\ last' = [NoCall EXCEPT !.op = "add_individual", !.uid = uid,
                                     !.index = index, !.outcome = r.outcome]
    /\ UNCHANGED <<args, pc, i, gens>>

\* A faulty get_index, used to test C11_ReadsKeepIndex: it allocates the
\* tables on the way to the slot, as add_individual does.
TraverseGetAllocating(uid) ==
    /\ pc = "traverse"
    /\ \E r \in {get_index(self, uid)} :
           last' = [NoCall EXCEPT !.op = "get_index", !.uid = uid,
                                  !.outcome = r.outcome, !.value = r.value]
    /\ \E a \in {add_individual(self, uid, Sentinel)} :
           self' = [self EXCEPT !.mapping =
                        IF get_index(self, uid).outcome = "TypeError"
                        THEN a.mapping ELSE self.mapping]
    /\ UNCHANGED <<args, history, pc, i, gens>>

TraverseGet(uid) ==
    /\ pc = "traverse"
    /\ \E r \in {get_index(self, uid)} :
           last' = [NoCall EXCEPT !.op = "get_index", !.uid = uid,
                                  !.outcome = r.outcome, !.value = r.value]
    /\ UNCHANGED <<self, args, history, pc, i, gens>>

\* A call of uids(): a generator, none of its body run yet.
TraverseUids ==
    /\ pc = "traverse"
    /\ Len(history) + Len(gens) < MaxCalls
    /\ gens' = Append(gens, NewGenerator)
    /\ last' = [NoCall EXCEPT !.op = "uids"]
    /\ UNCHANGED <<self, args, history, pc, i>>

\* next() of generator g: it runs to its next yield or to its end.
TraverseNext(g) ==
    /\ pc = "traverse"
    /\ gens[g].state # "done"
    /\ \E pos \in {next(self, gens[g])} :
          IF pos = <<>>
          THEN /\ gens' = [gens EXCEPT ![g].state = "done",
                                       ![g].ended = Len(history)]
               /\ last' = [NoCall EXCEPT !.op = "next",
                                         !.outcome = "StopIteration"]
          ELSE \E uid \in {self.mapping[pos[1]][1][pos[2]][1][pos[3]][1][pos[4]][2]} :
               /\ gens' = [gens EXCEPT
                             ![g].state = "running",
                             ![g].pos = pos,
                             ![g].out = Append(@, [uid |-> uid, at |-> Len(history)])]
               /\ last' = [NoCall EXCEPT !.op = "next", !.uid = uid]
    /\ UNCHANGED <<self, args, history, pc, i>>

NextTraverse ==
    \/ \E uid \in TraverseUidInputs, index \in IndexInputs : TraverseAdd(uid, index)
    \/ \E uid \in TraverseGetInputs : TraverseGet(uid)
    \/ TraverseUids
    \/ \E g \in DOMAIN gens : TraverseNext(g)

SpecTraverse == InitTraverse /\ [][NextTraverse]_vars

(***************************************************************************)
(* Properties                                                              *)
(***************************************************************************)
\* The values of a sequence, and how often u occurs in it.
Range(seq) == {seq[k] : k \in DOMAIN seq}
Occurrences(seq, u) == Cardinality({k \in DOMAIN seq : seq[k] = u})

\* Call k of history returned; its (ssn, child, day, year) coordinate; and
\* whether it is the latest returned call at its coordinate, or of its uid.
Completed(k) == history[k].outcome = "return"
Coordinate(k) == parse_uid(self, history[k].uid)
LatestAt(k) ==
    /\ Completed(k)
    /\ \A j \in DOMAIN history :
          (j > k /\ Completed(j)) => Coordinate(j) # Coordinate(k)
LatestOf(k) ==
    /\ Completed(k)
    /\ \A j \in DOMAIN history :
          (j > k /\ Completed(j)) => history[j].uid # history[k].uid

\* The uids that two returned add_individual calls were given.
InsertedTwice ==
    {history[k].uid : k \in {k \in DOMAIN history :
        Completed(k) /\ \E j \in DOMAIN history :
            j < k /\ Completed(j) /\ history[j].uid = history[k].uid}}

\* The index the latest returned add_individual(u, .) was given.
LatestIndex(u) ==
    history[CHOOSE k \in DOMAIN history : LatestOf(k) /\ history[k].uid = u].index

\* C1: in every state that a returned add_individual(uid, index) leaves,
\* get_index(uid) returns index.
C1_InsertLookup ==
    (last.op = "add_individual" /\ last.outcome = "return")
        => get_index(self, last.uid) = [outcome |-> "return", value |-> last.index]

\* C1 happens: the third add_individual returned, on a table the two before
\* it wrote, and it stored the all-ones index.
C1_Witness ==
    /\ last.op = "add_individual"
    /\ last.outcome = "return"
    /\ last.index = Sentinel
    /\ Len(history) = 3
    /\ \A k \in DOMAIN history : Completed(k)

\* C2 as stated: a traversal yields exactly the uids of the returned
\* add_individual calls that no later returned call with another uid
\* overwrote at the same coordinate.
C2_Original ==
    last.op = "uids" =>
        Range(last.yielded) =
            {history[k].uid : k \in {k \in DOMAIN history :
                /\ Completed(k)
                /\ \A j \in DOMAIN history :
                      (j > k /\ Completed(j) /\ Coordinate(j) = Coordinate(k))
                          => history[j].uid = history[k].uid}}

\* C2, amended: a traversal yields exactly the uids of the returned
\* add_individual calls that are the latest returned call at their
\* coordinate and stored an index other than 0xFFFFFFFFFFFFFFFF.
C2_Amended ==
    last.op = "uids" =>
        Range(last.yielded) =
            {history[k].uid : k \in {k \in DOMAIN history :
                LatestAt(k) /\ history[k].index # Sentinel}}

\* C2 happens: a traversal yielded two uids after three returned calls, one
\* of which stored the all-ones index.
C2_Witness ==
    /\ last.op = "uids"
    /\ Len(last.yielded) = 2
    /\ Len(history) = 3
    /\ \A k \in DOMAIN history : Completed(k)
    /\ \E k \in DOMAIN history : history[k].index = Sentinel

\* C3: get_index of a uid that no add_individual call was given does not
\* return; it raises.
C3_NotFound ==
    (last.op = "get_index"
        /\ \A k \in DOMAIN history : history[k].uid # last.uid)
        => last.outcome # "return"

\* C4 as stated: for a uid that two returned add_individual calls were given,
\* get_index returns the index of the later call and a traversal yields the
\* uid exactly once; and no traversal yields a uid twice.
C4_Original ==
    last.op = "uids" =>
        /\ \A u \in InsertedTwice :
              /\ get_index(self, u) = [outcome |-> "return", value |-> LatestIndex(u)]
              /\ Occurrences(last.yielded, u) = 1
        /\ \A u \in Range(last.yielded) : Occurrences(last.yielded, u) = 1

\* C4, amended: for a uid that two returned add_individual calls were given,
\* get_index returns the index of the later call, and a traversal yields the
\* uid exactly once if that index is not 0xFFFFFFFFFFFFFFFF and not at all
\* if it is; and no traversal yields a uid twice.
C4_Amended ==
    last.op = "uids" =>
        /\ \A u \in InsertedTwice :
              /\ get_index(self, u) = [outcome |-> "return", value |-> LatestIndex(u)]
              /\ Occurrences(last.yielded, u)
                    = IF LatestIndex(u) = Sentinel THEN 0 ELSE 1
        /\ \A u \in Range(last.yielded) : Occurrences(last.yielded, u) = 1

\* C4 happens: a traversal after a uid was inserted, another uid was inserted,
\* and the first uid was inserted again with another index.
C4_Witness ==
    /\ last.op = "uids"
    /\ Len(history) = 3
    /\ \A k \in DOMAIN history : Completed(k)
    /\ history[1].uid = history[3].uid
    /\ history[2].uid # history[1].uid
    /\ history[3].index # history[1].index
    /\ history[3].index # Sentinel
    /\ Len(last.yielded) = 2

\* n < 2^bits, n mod 2^bits and n div 2^bits for a Python int 0 <= n < 2^31
\* and a bit count (a Word).
Fits(n, bits) == ~Below(bits, 31) \/ n < 2 ^ ToNat(bits)
ModPow2(n, bits) == IF Below(bits, 31) THEN n % (2 ^ ToNat(bits)) ELSE n
DivPow2(n, bits) == IF Below(bits, 31) THEN n \div (2 ^ ToNat(bits)) ELSE 0

\* C5: when make_uid was given ssn < 2^pop_bits, time < 2^time_bits and
\* child < 2^child_bits, parse_uid of the uid it returned is
\* (ssn, child, time mod 2^day_bits, time div 2^day_bits).
C5_RoundTrip ==
    (/\ last.op = "make_uid"
     /\ Fits(last.given[1], self.pop_bits)
     /\ Fits(last.given[2], self.time_bits)
     /\ Fits(last.given[3], self.child_bits))
        => parse_uid(self, last.uid)
              = <<W(last.given[1]), W(last.given[3]),
                  W(ModPow2(last.given[2], self.day_bits)),
                  W(DivPow2(last.given[2], self.day_bits))>>

\* C6: what get_index returns is never 0xFFFFFFFFFFFFFFFF, and is an index a
\* returned add_individual call stored for that uid.
C6_NoSentinel ==
    (last.op = "get_index" /\ last.outcome = "return")
        => /\ last.value # Sentinel
           /\ \E k \in DOMAIN history :
                 /\ Completed(k)
                 /\ history[k].uid = last.uid
                 /\ history[k].index = last.value

\* A coordinate of uid lies outside the dimensions of the table: the year
\* beyond the mapping, or the child, day or ssn beyond the length a table of
\* that level is allocated with.
OutOfRange(uid) ==
    LET p == parse_uid(self, uid)
    IN  \/ ~InBounds(p[4], self.mapping)
        \/ ~Below(p[2], Length(Shl(One, self.child_bits)))
        \/ ~Below(p[3], Length(Shl(One, self.day_bits)))
        \/ ~Below(p[1], Length(Shl(One, self.pop_bits)))

\* C7: add_individual and get_index of a uid with a coordinate out of range
\* end in the out-of-range error, IndexError.
C7_OutOfRange ==
    (last.op \in {"add_individual", "get_index"} /\ OutOfRange(last.uid))
        => last.outcome = "IndexError"

\* The configurations C8 wants rejected: a capacity <= 0, more day bits than
\* time bits, or more than 64 bits of fields.
InvalidArguments(a) ==
    \/ a.initial_population_size <= 0
    \/ a.number_of_timesteps <= 0
    \/ a.max_children <= 0
    \/ a.year_size <= 0
    \/ CeilLog2(a.year_size) > CeilLog2(a.number_of_timesteps)
    \/ CeilLog2(a.initial_population_size) + CeilLog2(a.number_of_timesteps)
          + CeilLog2(a.max_children) > WordBits

\* C8: the constructor does not return for an invalid configuration; for the
\* others year_bits = time_bits - day_bits and the mapping has 2^year_bits
\* entries, all None.
C8_Rejects ==
    last.op = "__init__" =>
        IF InvalidArguments(args)
        THEN last.outcome # "return"
        ELSE /\ Add(self.year_bits, self.day_bits) = self.time_bits
             /\ Below(self.year_bits, 31)
             /\ Size(self.mapping) = 2 ^ ToNat(self.year_bits)
             /\ \A y \in DOMAIN self.mapping : self.mapping[y] = None

\* C9: the bit widths are 14, 13, 3, 8 and 5, and in the state the 32 seeding
\* calls leave, get_index(make_uid(k, 0, 0)) returns k for every k in 0..31
\* and a traversal yields 32 uids, all different.
C9_Scenario ==
    /\ self.pop_bits = W(14)
    /\ self.time_bits = W(13)
    /\ self.child_bits = W(3)
    /\ self.day_bits = W(8)
    /\ self.year_bits = W(5)
    /\ (pc = "children" /\ i = 0) =>
          /\ \A k \in 0..(NumSeeds - 1) :
                get_index(self, make_uid(self, k, 0, 0))
                    = [outcome |-> "return", value |-> W(k)]
          /\ \E all \in {uids(self)} :
                Len(all) = 32 /\ Cardinality(Range(all)) = 32

\* C9 happens: the last seeding call has returned and no child is added yet.
C9_Witness ==
    /\ pc = "children"
    /\ i = 0
    /\ last.op = "add_individual"
    /\ last.index = W(NumSeeds - 1)
    /\ last.outcome = "return"

\* The (year, child, day) triples the add_individual calls made so far
\* decoded to, and whether an ssn array exists at a triple.
Touched ==
    {<<Coordinate(k)[4], Coordinate(k)[2], Coordinate(k)[3]>> : k \in DOMAIN history}
ArrayAt(y, c, d) ==
    /\ y \in DOMAIN self.mapping
    /\ self.mapping[y] # None
    /\ c \in DOMAIN self.mapping[y][1]
    /\ self.mapping[y][1][c] # None
    /\ d \in DOMAIN self.mapping[y][1][c][1]
    /\ self.mapping[y][1][c][1][d] # None

\* C10, its first half: an ssn array exists at (year, child, day) if and only
\* if an add_individual call decoded to that triple.
C10_LazyExact ==
    /\ \A t \in Touched : ArrayAt(ToNat(t[1]), ToNat(t[2]), ToNat(t[3]))
    /\ \A y \in DOMAIN self.mapping :
          self.mapping[y] # None =>
              \A c \in DOMAIN self.mapping[y][1] :
                  self.mapping[y][1][c] # None =>
                      \A d \in DOMAIN self.mapping[y][1][c][1] :
                          self.mapping[y][1][c][1][d] # None
                              => <<W(y), W(c), W(d)>> \in Touched

\* C11: a step that is a get_index call, a uids() call or a next() of a
\* generator, whether it returns, yields or raises, leaves every level of
\* the table as it was.
C11_ReadsKeepIndex ==
    [][last'.op \in {"get_index", "uids", "next"} => self'.mapping = self.mapping]_vars

\* C11 happens: on a table with a binding, a generator has yielded and is
\* not done, and a get_index call has just raised.
C11_Witness ==
    /\ last.op = "get_index"
    /\ last.outcome \in {"TypeError", "IndexError"}
    /\ \E k \in DOMAIN history : Completed(k)
    /\ \E g \in DOMAIN gens : gens[g].state = "running"

\* u < v for two words, and p before q in the order of (year, child, day,
\* ssn) for two results <<ssn, child, day, year>> of parse_uid.
Less(u, v) ==
    \E n \in 1..4 : u[n] < v[n] /\ \A k \in (n + 1)..4 : u[k] = v[k]
Before(p, q) ==
    \/ Less(p[4], q[4])
    \/ p[4] = q[4] /\ Less(p[2], q[2])
    \/ p[4] = q[4] /\ p[2] = q[2] /\ Less(p[3], q[3])
    \/ p[4] = q[4] /\ p[2] = q[2] /\ p[3] = q[3] /\ Less(p[1], q[1])

\* C12: of two uids one traversal yields, the one yielded first decodes to
\* the coordinate that is first in the order of (year, child, day, ssn).
C12_Order ==
    last.op = "uids" =>
        \A a, b \in DOMAIN last.yielded :
            a < b => Before(parse_uid(self, last.yielded[a]),
                            parse_uid(self, last.yielded[b]))

\* C12 happens: uids 2 (year 1), 4 (child 1) and 8 (serial number 1) were
\* inserted in that order and a traversal yielded 8, 4, 2.
C12_Witness ==
    /\ last.op = "uids"
    /\ Len(history) = 3
    /\ history[1].uid = W(2)
    /\ history[2].uid = W(4)
    /\ history[3].uid = W(8)
    /\ last.yielded = <<W(8), W(4), W(2)>>

\* Generator g had passed the coordinate of call k of history when the call
\* was made: it had ended, or had yielded a uid whose coordinate is that one
\* or a later one.
Passed(g, k) ==
    \/ gens[g].state = "done" /\ gens[g].ended < k
    \/ \E n \in DOMAIN gens[g].out :
          /\ gens[g].out[n].at < k
          /\ ~Before(parse_uid(self, gens[g].out[n].uid), Coordinate(k))

\* Generator g yielded the uid of call k after the call was made.
YieldedAfter(g, k) ==
    \E n \in DOMAIN gens[g].out :
        gens[g].out[n].uid = history[k].uid /\ gens[g].out[n].at >= k

\* Every step of generator g was taken after the last add_individual call.
Undisturbed(g) ==
    /\ gens[g].ended = Len(history)
    /\ \A n \in DOMAIN gens[g].out : gens[g].out[n].at = Len(history)

\* C13 as stated, for every generator that is done: run on an unchanging
\* table it yielded all the uids a traversal yields; it yielded the uid of
\* an insert (the latest at its coordinate) made at a coordinate it had not
\* passed, and did not yield that of an insert at a coordinate it had passed.
C13_Original ==
    \A g \in DOMAIN gens :
        gens[g].state = "done" =>
            /\ Undisturbed(g) =>
                  [n \in DOMAIN gens[g].out |-> gens[g].out[n].uid] = uids(self)
            /\ \A k \in DOMAIN history :
                  /\ (LatestAt(k) /\ ~Passed(g, k)) => YieldedAfter(g, k)
                  /\ (Completed(k) /\ Passed(g, k)) => ~YieldedAfter(g, k)

\* C13, amended: as C13_Original, but the uid of an insert made at a
\* coordinate not passed, the latest such insert at its coordinate, is
\* yielded if and only if the index it stored is not 0xFFFFFFFFFFFFFFFF.
C13_Amended ==
    \A g \in DOMAIN gens :
        gens[g].state = "done" =>
            /\ Undisturbed(g) =>
                  [n \in DOMAIN gens[g].out |-> gens[g].out[n].uid] = uids(self)
            /\ \A k \in DOMAIN history :
                  /\ (/\ Completed(k)
                      /\ ~Passed(g, k)
                      /\ \A j \in DOMAIN history :
                            (j > k /\ Completed(j) /\ Coordinate(j) = Coordinate(k))
                                => Passed(g, j))
                        => (YieldedAfter(g, k) <=> history[k].index # Sentinel)
                  /\ (Completed(k) /\ Passed(g, k)) => ~YieldedAfter(g, k)

\* C13 happens: uid 8 was inserted, a first generator yielded it, uid 0 was
\* inserted at a coordinate that generator had passed, the generator ended
\* without yielding uid 0, and a second generator yielded 0 and 8.
C13_Witness ==
    /\ Len(history) = 2
    /\ history[1].uid = W(8)
    /\ history[2].uid = W(0)
    /\ history[2].index # Sentinel
    /\ Len(gens) = 2
    /\ gens[1].state = "done"
    /\ gens[1].out = <<[uid |-> W(8), at |-> 1]>>
    /\ gens[1].ended = 2
    /\ gens[2].state = "done"
    /\ [n \in DOMAIN gens[2].out |-> gens[2].out[n].uid] = <<W(0), W(8)>>

\* C14: in a configuration that is not invalid, when make_uid was given
\* ssn < 2^pop_bits and any time and child, parse_uid of the uid it returned
\* is ssn, child mod 2^child_bits, and the day and year of
\* time mod 2^time_bits.
C14_Wraps ==
    (/\ ~InvalidArguments(args)
     /\ last.op = "make_uid"
     /\ Fits(last.given[1], self.pop_bits))
        => parse_uid(self, last.uid)
              = <<W(last.given[1]),
                  W(ModPow2(last.given[3], self.child_bits)),
                  W(ModPow2(ModPow2(last.given[2], self.time_bits), self.day_bits)),
                  W(DivPow2(ModPow2(last.given[2], self.time_bits), self.day_bits))>>

\* The uids parse_uid is tried on in a state.
Decoded == CodecUidInputs \cup {last.uid}

\* C15: for every uid, parse_uid returns a quadruple with child < 2^child_bits,
\* day < 2^day_bits and year < 2^year_bits; the year, child and day are
\* within the dimensions of the mapping, of a child list and of a day list;
\* and two different uids never decode to the same quadruple.
C15_Decode ==
    /\ \A u \in Decoded :
          LET p == parse_uid(self, u)
          IN  /\ Len(p) = 4
              /\ Shr(p[2], self.child_bits) = Zero
              /\ Shr(p[3], self.day_bits) = Zero
              /\ Shr(p[4], self.year_bits) = Zero
              /\ InBounds(p[4], self.mapping)
              /\ Below(p[2], Length(Shl(One, self.child_bits)))
              /\ Below(p[3], Length(Shl(One, self.day_bits)))
    /\ \A u, v \in Decoded :
          parse_uid(self, u) = parse_uid(self, v) => u = v

\* The (y, c, d) of the ssn arrays of mapping m.
Arrays(m) ==
    UNION {UNION {{<<y, c, d>> : d \in {d \in DOMAIN m[y][1][c][1] :
                                          m[y][1][c][1][d] # None}} :
                  c \in {c \in DOMAIN m[y][1] : m[y][1][c] # None}} :
           y \in {y \in DOMAIN m : m[y] # None}}

\* The step is an add_individual call that returned.
Inserts ==
    /\ Len(history') = Len(history) + 1
    /\ history'[Len(history')].outcome = "return"

\* C16: an add_individual(uid, index) call that returns keeps every ssn
\* array there was; the arrays after it are those, with the row at uid's
\* coordinate now (index, uid) and every other row as it was, and possibly a
\* new one at uid's (year, child, day), whose other rows are (sentinel, 0);
\* and get_index of every other uid that returned an index before returns the
\* same after.
C16_OneSlot ==
    [][Inserts =>
        \E call \in {history'[Len(history')]} :
        \E p \in {parse_uid(self, call.uid)} :
        \E at \in {<<ToNat(p[4]), ToNat(p[2]), ToNat(p[3])>>} :
        \E was \in {Arrays(self.mapping)} :
        \E now \in {Arrays(self'.mapping)} :
            /\ was \subseteq now
            /\ now \subseteq was \cup {at}
            /\ \A t \in now :
                  \E rows \in {self'.mapping[t[1]][1][t[2]][1][t[3]][1]} :
                      \A k \in DOMAIN rows :
                         rows[k] = IF t = at /\ k = ToNat(p[1])
                                   THEN <<call.index, call.uid>>
                                   ELSE IF t \in was
                                   THEN self.mapping[t[1]][1][t[2]][1][t[3]][1][k]
                                   ELSE <<Sentinel, Zero>>
            /\ \A u \in UidInputs \ {call.uid} :
                  \E before \in {get_index(self, u)} :
                      (before.outcome = "return" /\ before.value # Sentinel)
                          => get_index(self', u) = before
    ]_vars

\* C16 happens: the third add_individual call returned, at a (year, child,
\* day) that had no array, on a table where two other uids are bound.
C16_Witness ==
    /\ last.op = "add_individual"
    /\ Len(history) = 3
    /\ \A k \in DOMAIN history : Completed(k) /\ history[k].index # Sentinel
    /\ history[1].uid = W(0)
    /\ history[2].uid = W(8)
    /\ history[3].uid = W(4)

\* C17: every row of every ssn array whose index is not the sentinel holds a
\* uid that parse_uid decodes to the row's own (ssn, child, day, year); and
\* get_index of every uid a traversal yields returns the index of the row
\* that holds the uid, which is not the sentinel.
C17_StoredUid ==
    /\ \A t \in Arrays(self.mapping) :
          LET rows == self.mapping[t[1]][1][t[2]][1][t[3]][1]
          IN  \A k \in DOMAIN rows :
                 rows[k][1] # Sentinel
                     => parse_uid(self, rows[k][2]) = <<W(k), W(t[2]), W(t[3]), W(t[1])>>
    /\ \E all \in {uids(self)} :
          \A n \in DOMAIN all :
             \E r \in {get_index(self, all[n])} :
                /\ r.outcome = "return"
                /\ r.value # Sentinel
                /\ \E t \in Arrays(self.mapping) :
                      \E k \in DOMAIN self.mapping[t[1]][1][t[2]][1][t[3]][1] :
                          self.mapping[t[1]][1][t[2]][1][t[3]][1][k] = <<r.value, all[n]>>

\* C17 happens: three uids are bound in three different arrays or rows, and
\* get_index of the one inserted last has just returned its index.
C17_Witness ==
    /\ Len(history) = 3
    /\ \A k \in DOMAIN history : Completed(k) /\ history[k].index # Sentinel
    /\ Len(uids(self)) = 3
    /\ last.op = "get_index"
    /\ last.uid = history[3].uid
    /\ last.uid = W(8)
    /\ last.value = history[3].index

\* C18: an add_individual call that raises leaves the table as it was; so
\* while no add_individual call has returned, the table is as __init__ left
\* it, every entry of the mapping None.
C18_FailedInsert ==
    (\A k \in DOMAIN history : ~Completed(k))
        => \A y \in DOMAIN self.mapping : self.mapping[y] = None

====
